---- MODULE Spec2Model ----
(***************************************************************************)
(* Model of src/src/mutec.rs: Atomex (an AtomicBool plus a payload), Mutec  *)
(* (a Vec of slots, each a value Atomex and an Atomex holding a VecDeque of *)
(* parked threads), MutecGuard, Iter and AsyncIter.                         *)
(*                                                                         *)
(* Every atomic access of the code (compare_exchange, store, load, park,    *)
(* unpark) is one step of the thread that performs it; a call and a return  *)
(* are steps of their own where a claim tells them apart.  Indices are the  *)
(* code's 0-based usize indices; the TLA+ sequence `inner` is 1-based, so   *)
(* slot i of the code is inner[i + 1].                                      *)
(***************************************************************************)
EXTENDS Integers, Sequences, FiniteSets, TLC

\* ---------------------------------------------------------------- bounds
NThreads == 2
MaxLen == 2
MaxVal == 1
MaxSpurious == 1
Rounds == 2
WalkLen == 4

Threads == 1..NThreads
Values == 0..MaxVal
IndexDomain == 0..((IF MaxLen >= WalkLen THEN MaxLen ELSE WalkLen) - 1)

VARIABLES
    inner,       \* Mutec.inner: Seq of <<Atomex(value), Atomex(VecDeque<Thread>)>>
    pc,          \* per thread: the atomic access it performs next
    op,          \* per thread: the public call the thread is inside
    index,       \* per thread: the `index` argument of the running lock/unlock
    guards,      \* per thread: number of live MutecGuards it owns, per index
    iter,        \* per thread: its Iter {index, back_index}, or NoCursor
    async_iter,  \* per thread: its AsyncIter {progress}, or NoCursor
    sweep,       \* per thread: position of AsyncIter::next's for loop
    done,        \* per thread: the local `done` of AsyncIter::next
    token,       \* per thread: the park token of std::thread (set by unpark)
    ret,         \* per thread: what its last completed call returned
    spurious,    \* number of spurious returns of park() so far
    atomex,      \* a stand-alone Atomex<T>, as in tests::atomic_lock
    refs,        \* per thread: number of `&mut T` it got from atomex.try_lock()
    yielded,     \* history, per thread: indices its cursor has yielded, in order
    source,      \* history: the sequence the Mutec was built from
    touched,     \* history: indices for which a guard has ever been created
    counter      \* the increment workload: its index and the rounds each thread completed

vars == <<inner, pc, op, index, guards, iter, async_iter, sweep, done, token,
          ret, spurious, atomex, refs, yielded, source, touched, counter>>

cursorVars == <<iter, async_iter, sweep, done, yielded>>
atomexVars == <<atomex, refs>>

\* ---------------------------------------------------------------- Atomex
AtomexNew(data) == [atomic |-> FALSE, data |-> data]

\* Mutation: a failed attempt stores false in the flag.
AtomexTryLockClears(a) ==
    IF a.atomic = FALSE
    THEN [ok |-> TRUE, cell |-> [a EXCEPT !.atomic = TRUE]]
    ELSE [ok |-> FALSE, cell |-> [a EXCEPT !.atomic = FALSE]]

\* Mutation: a swap(true) whose previous value is ignored, so the call always succeeds.
AtomexTryLockSwap(a) == [ok |-> TRUE, cell |-> [a EXCEPT !.atomic = TRUE]]

\* compare_exchange(false, true, SeqCst, SeqCst): Ok iff the flag was false.
AtomexTryLock(a) ==
    IF a.atomic = FALSE
    THEN [ok |-> TRUE, cell |-> [a EXCEPT !.atomic = TRUE]]
    ELSE [ok |-> FALSE, cell |-> a]

\* Mutation: the store is left out.
AtomexUnlockNoStore(a) == a

\* self.atomic.store(false, SeqCst)
AtomexUnlock(a) == [a EXCEPT !.atomic = FALSE]

\* self.atomic.load(SeqCst)
AtomexCheckLock(a) == a.atomic

\* ---------------------------------------------------------------- helpers
NoCursor == [kind |-> "none"]
NoRet == [tag |-> "none", val |-> 0]
Ret(tag, val) == [tag |-> tag, val |-> val]

MutecLen == Len(inner)
Indices == 0..(MutecLen - 1)

ValueCell(i) == inner[i + 1][1]
QueueCell(i) == inner[i + 1][2]

NoGuards == [i \in IndexDomain |-> 0]

RECURSIVE SumOver(_, _)
SumOver(S, f) ==
    IF S = {} THEN 0
    ELSE LET t == CHOOSE x \in S : TRUE
         IN f[t] + SumOver(S \ {t}, f)

\* Number of live MutecGuards for index i, over all threads.
Alive(i) == SumOver(Threads, [t \in Threads |-> guards[t][i]])

\* ---------------------------------------------------------------- construction
\* Mutec::new
MutecNew == <<>>

\* Mutation: the new slot is inserted in front of the others.
MutecPushFront(m, value) == <<<<AtomexNew(value), AtomexNew(<<>>)>>>> \o m

\* Mutec::push: a fresh (value cell, empty queue cell) pair at the end.
MutecPush(m, value) == Append(m, <<AtomexNew(value), AtomexNew(<<>>)>>)

\* Extend::extend and FromIterator::from_iter: push every item in order.
RECURSIVE MutecExtend(_, _)
MutecExtend(m, items) ==
    IF items = <<>> THEN m
    ELSE MutecExtend(MutecPush(m, Head(items)), Tail(items))

\* Mutec::extend_from_slice: reserve, then push a clone of every item in order.
RECURSIVE MutecExtendFromSlice(_, _)
MutecExtendFromSlice(m, slice) ==
    IF slice = <<>> THEN m
    ELSE MutecExtendFromSlice(MutecPush(m, Head(slice)), Tail(slice))

FromSlice(slice) == MutecExtendFromSlice(MutecNew, slice)
FromArray(value) == MutecExtend(MutecNew, value)
FromVec(value) == MutecExtend(MutecNew, value)
FromIter(items) == MutecExtend(MutecNew, items)

Init ==
    /\ inner = MutecNew
    /\ pc = [t \in Threads |-> "idle"]
    /\ op = [t \in Threads |-> "none"]
    /\ index = [t \in Threads |-> 0]
    /\ guards = [t \in Threads |-> NoGuards]
    /\ iter = [t \in Threads |-> NoCursor]
    /\ async_iter = [t \in Threads |-> NoCursor]
    /\ sweep = [t \in Threads |-> 0]
    /\ done = [t \in Threads |-> FALSE]
    /\ token = [t \in Threads |-> FALSE]
    /\ ret = [t \in Threads |-> NoRet]
    /\ spurious = 0
    /\ atomex = AtomexNew(0)
    /\ refs = [t \in Threads |-> 0]
    /\ yielded = [t \in Threads |-> <<>>]
    /\ source = <<>>
    /\ touched = {}
    /\ counter = [target |-> -1, rounds |-> [t \in Threads |-> 0]]

\* No thread is inside a call and no guard or cursor borrows the Mutec:
\* the only states in which a `&mut self` method can run.
Unborrowed ==
    \A t \in Threads :
        /\ pc[t] = "idle"
        /\ guards[t] = NoGuards
        /\ iter[t] = NoCursor
        /\ async_iter[t] = NoCursor

\* Mutec::push(&mut self, value)
Push(value) ==
    /\ Unborrowed
    /\ MutecLen < MaxLen
    /\ inner' = MutecPush(inner, value)
    /\ source' = Append(source, value)
    /\ UNCHANGED <<pc, op, index, guards, token, ret, spurious, touched, counter>>
    /\ UNCHANGED <<cursorVars, atomexVars>>

\* Mutec::extend_from_slice(&mut self, slice) and Extend::extend(&mut self, iter)
ExtendWith(items) ==
    /\ Unborrowed
    /\ items # <<>>
    /\ MutecLen + Len(items) <= MaxLen
    /\ \/ inner' = MutecExtendFromSlice(inner, items)
       \/ inner' = MutecExtend(inner, items)
    /\ source' = source \o items
    /\ UNCHANGED <<pc, op, index, guards, token, ret, spurious, touched, counter>>
    /\ UNCHANGED <<cursorVars, atomexVars>>

\* From<&[T]>, From<[T; N]>, From<Vec<T>>, FromIterator: a new Mutec from a sequence.
Build(items) ==
    /\ inner = MutecNew
    /\ source = <<>>
    /\ Unborrowed
    /\ items # <<>>
    /\ \/ inner' = FromSlice(items)
       \/ inner' = FromArray(items)
       \/ inner' = FromVec(items)
       \/ inner' = FromIter(items)
    /\ source' = items
    /\ UNCHANGED <<pc, op, index, guards, token, ret, spurious, touched, counter>>
    /\ UNCHANGED <<cursorVars, atomexVars>>

\* ---------------------------------------------------------------- guards
AddGuard(t, i) == [guards EXCEPT ![t][i] = @ + 1]
RemoveGuard(t, i) == [guards EXCEPT ![t][i] = @ - 1]

\* Mutation: the loop of to_vec steps over every other index.
ToVecNextSkip(i) == i + 2

\* Mutec::to_vec: the index after i in `for index in 0..self.len()`.
ToVecNext(i) == i + 1

\* What follows `return MutecGuard {..}` of Mutec::lock, by caller:
\* a direct call, Mutec::to_vec's loop, or Iter::next / Iter::next_back.
LockReturn(t) ==
    LET i == index[t] IN
    /\ guards' = AddGuard(t, i)
    /\ touched' = touched \cup {i}
    /\ IF op[t] = "to_vec" /\ ToVecNext(i) < MutecLen
       THEN /\ pc' = [pc EXCEPT ![t] = "lock"]
            /\ index' = [index EXCEPT ![t] = ToVecNext(i)]
            /\ UNCHANGED <<op, ret, yielded>>
       ELSE /\ pc' = [pc EXCEPT ![t] = "idle"]
            /\ op' = [op EXCEPT ![t] = "none"]
            /\ index' = [index EXCEPT ![t] = 0]
            /\ ret' = [ret EXCEPT ![t] =
                          CASE op[t] = "to_vec" -> Ret("Vec", MutecLen)
                            [] op[t] = "lock" -> Ret("Guard", i)
                            [] OTHER -> Ret("Some", i)]
            /\ yielded' = IF op[t] \in {"next", "next_back"}
                          THEN [yielded EXCEPT ![t] = Append(@, i)]
                          ELSE yielded

\* ---------------------------------------------------------------- self.inner[index]
\* Index for Vec checks the index against the length and panics when it is not
\* below it; the calling thread unwinds and takes no further step.
InBounds(i) == i < MutecLen

IndexPanic(t, i) ==
    /\ pc' = [pc EXCEPT ![t] = "panicked"]
    /\ ret' = [ret EXCEPT ![t] = Ret("Panic", i)]
    /\ UNCHANGED <<inner, op, index, guards, token, spurious, source, touched, counter>>
    /\ UNCHANGED <<cursorVars, atomexVars>>

\* ---------------------------------------------------------------- Mutec::lock
\* entry: the first evaluation of self.inner[index]
CallLock(t, i) ==
    /\ pc[t] = "idle"
    /\ IF InBounds(i)
       THEN /\ pc' = [pc EXCEPT ![t] = "lock"]
            /\ op' = [op EXCEPT ![t] = "lock"]
            /\ index' = [index EXCEPT ![t] = i]
            /\ ret' = [ret EXCEPT ![t] = NoRet]
            /\ UNCHANGED <<inner, guards, token, spurious, source, touched, counter>>
            /\ UNCHANGED <<cursorVars, atomexVars>>
       ELSE IndexPanic(t, i)

\* loop head: match self.inner[index].0.try_lock()
LockTry(t) ==
    /\ pc[t] = "lock"
    /\ LET r == AtomexTryLock(ValueCell(index[t])) IN
       IF r.ok
       THEN /\ inner' = [inner EXCEPT ![index[t] + 1][1] = r.cell]
            /\ LockReturn(t)
       ELSE /\ pc' = [pc EXCEPT ![t] = "lock_queue"]
            /\ UNCHANGED <<inner, op, index, guards, ret, yielded, touched>>
    /\ UNCHANGED <<iter, async_iter, sweep, done, token, spurious, source, counter>>
    /\ UNCHANGED atomexVars

\* Err branch: if let Ok(data) = self.inner[index].1.try_lock()
LockQueue(t) ==
    /\ pc[t] = "lock_queue"
    /\ LET r == AtomexTryLock(QueueCell(index[t])) IN
       /\ inner' = [inner EXCEPT ![index[t] + 1][2] = r.cell]
       /\ pc' = [pc EXCEPT ![t] = IF r.ok THEN "lock_push" ELSE "lock"]
    /\ UNCHANGED <<op, index, guards, token, ret, spurious, source, touched, counter>>
    /\ UNCHANGED <<cursorVars, atomexVars>>

\* VecDeque::push_back: the record goes behind every record already queued.
PushBack(queue, t) == Append(queue, t)

\* data.push_back(std::thread::current())
LockPush(t) ==
    /\ pc[t] = "lock_push"
    /\ inner' = [inner EXCEPT ![index[t] + 1][2].data = PushBack(@, t)]
    /\ pc' = [pc EXCEPT ![t] = "lock_unlock"]
    /\ UNCHANGED <<op, index, guards, token, ret, spurious, source, touched, counter>>
    /\ UNCHANGED <<cursorVars, atomexVars>>

\* unsafe { self.inner[index].1.unlock() }
LockUnlockQueue(t) ==
    /\ pc[t] = "lock_unlock"
    /\ inner' = [inner EXCEPT ![index[t] + 1][2] = AtomexUnlock(@)]
    /\ pc' = [pc EXCEPT ![t] = "park"]
    /\ UNCHANGED <<op, index, guards, token, ret, spurious, source, touched, counter>>
    /\ UNCHANGED <<cursorVars, atomexVars>>

\* std::thread::park(): returns once the thread's token is set, consuming it;
\* then the loop of Mutec::lock starts over.
Park(t) ==
    /\ pc[t] = "park"
    /\ token[t]
    /\ token' = [token EXCEPT ![t] = FALSE]
    /\ pc' = [pc EXCEPT ![t] = "lock"]
    /\ UNCHANGED <<inner, op, index, guards, ret, spurious, source, touched, counter>>
    /\ UNCHANGED <<cursorVars, atomexVars>>

\* std::thread::park() is documented to be allowed to return spuriously.
SpuriousWake(t) ==
    /\ pc[t] = "park"
    /\ spurious < MaxSpurious
    /\ spurious' = spurious + 1
    /\ pc' = [pc EXCEPT ![t] = "lock"]
    /\ UNCHANGED <<inner, op, index, guards, token, ret, source, touched, counter>>
    /\ UNCHANGED <<cursorVars, atomexVars>>

\* ---------------------------------------------------------------- Mutec::try_lock
\* Mutation: the attempt is made on the value cell of slot 0 whatever the index.
MutecTryLockFirst(i) == AtomexTryLock(ValueCell(0))

\* match self.inner[index].0.try_lock(): Ok(guard) iff the value cell's CAS succeeds.
MutecTryLock(i) == AtomexTryLock(ValueCell(i))

TryLock(t, i) ==
    /\ pc[t] = "idle"
    /\ IF InBounds(i)
       THEN /\ LET r == MutecTryLock(i) IN
               /\ inner' = [inner EXCEPT ![i + 1][1] = r.cell]
               /\ guards' = IF r.ok THEN AddGuard(t, i) ELSE guards
               /\ touched' = IF r.ok THEN touched \cup {i} ELSE touched
               /\ ret' = [ret EXCEPT ![t] =
                             IF r.ok THEN Ret("Ok", i) ELSE Ret("Err", i)]
            /\ UNCHANGED <<pc, op, index, token, spurious, source, counter>>
            /\ UNCHANGED <<cursorVars, atomexVars>>
       ELSE IndexPanic(t, i)

\* ---------------------------------------------------------------- Mutec::check_lock
\* self.inner[index].0.check_lock()
MutecCheckLock(i) == AtomexCheckLock(ValueCell(i))

CheckLock(t, i) ==
    /\ pc[t] = "idle"
    /\ IF InBounds(i)
       THEN /\ ret' = [ret EXCEPT ![t] =
                          Ret("Bool", IF MutecCheckLock(i) THEN 1 ELSE 0)]
            /\ UNCHANGED <<inner, pc, op, index, guards, token, spurious, source,
                           touched, counter>>
            /\ UNCHANGED <<cursorVars, atomexVars>>
       ELSE IndexPanic(t, i)

\* ---------------------------------------------------------------- MutecGuard
\* Deref::deref: the value behind a guard for index i.
GuardDeref(i) == ValueCell(i).data

\* Read the value through a live guard.
GuardRead(t, i) ==
    /\ pc[t] = "idle"
    /\ i \in Indices
    /\ guards[t][i] > 0
    /\ ret' = [ret EXCEPT ![t] = Ret("Value", GuardDeref(i))]
    /\ UNCHANGED <<inner, pc, op, index, guards, token, spurious, source, touched,
                   counter>>
    /\ UNCHANGED <<cursorVars, atomexVars>>

\* DerefMut::deref_mut: assign the value through a live guard.
GuardStore(t, i, value) ==
    /\ pc[t] = "idle"
    /\ i \in Indices
    /\ guards[t][i] > 0
    /\ inner' = [inner EXCEPT ![i + 1][1].data = value]
    /\ ret' = [ret EXCEPT ![t] = NoRet]
    /\ UNCHANGED <<pc, op, index, guards, token, spurious, source, touched>>
    /\ UNCHANGED <<cursorVars, atomexVars>>

GuardWrite(t, i, value) ==
    /\ GuardStore(t, i, value)
    /\ UNCHANGED counter

\* Drop for MutecGuard: the guard stops being usable and Mutec::unlock runs.
GuardDrop(t, i) ==
    /\ pc[t] = "idle"
    /\ i \in Indices
    /\ guards[t][i] > 0
    /\ guards' = RemoveGuard(t, i)
    /\ pc' = [pc EXCEPT ![t] = "unlock"]
    /\ op' = [op EXCEPT ![t] = "drop"]
    /\ index' = [index EXCEPT ![t] = i]
    /\ ret' = [ret EXCEPT ![t] = NoRet]
    /\ UNCHANGED <<inner, token, spurious, source, touched, counter>>
    /\ UNCHANGED <<cursorVars, atomexVars>>

\* ---------------------------------------------------------------- Mutec::unlock
\* self.inner[index].0.unlock()
UnlockValue(t) ==
    /\ pc[t] = "unlock"
    /\ inner' = [inner EXCEPT ![index[t] + 1][1] = AtomexUnlock(@)]
    /\ pc' = [pc EXCEPT ![t] = "unlock_queue"]
    /\ UNCHANGED <<op, index, guards, token, ret, spurious, source, touched, counter>>
    /\ UNCHANGED <<cursorVars, atomexVars>>

UnlockReturn(t) ==
    /\ pc' = [pc EXCEPT ![t] = "idle"]
    /\ op' = [op EXCEPT ![t] = "none"]
    /\ index' = [index EXCEPT ![t] = 0]

\* if let Ok(data) = self.inner[index].1.try_lock()
UnlockQueue(t) ==
    /\ pc[t] = "unlock_queue"
    /\ LET r == AtomexTryLock(QueueCell(index[t])) IN
       /\ inner' = [inner EXCEPT ![index[t] + 1][2] = r.cell]
       /\ IF r.ok
          THEN /\ pc' = [pc EXCEPT ![t] = "unlock_pop"]
               /\ UNCHANGED <<op, index>>
          ELSE UnlockReturn(t)
    /\ UNCHANGED <<guards, token, ret, spurious, source, touched, counter>>
    /\ UNCHANGED <<cursorVars, atomexVars>>

\* Mutation: the release takes the newest record instead of the oldest.
PopBack(queue) ==
    [thread |-> queue[Len(queue)], rest |-> SubSeq(queue, 1, Len(queue) - 1)]

\* VecDeque::pop_front on a non-empty queue: the oldest record and what remains.
PopFront(queue) == [thread |-> Head(queue), rest |-> Tail(queue)]

\* if let Some(thread) = data.pop_front() { thread.unpark() }
\* The function returns here: the queue cell taken by UnlockQueue is not unlocked.
UnlockPop(t) ==
    /\ pc[t] = "unlock_pop"
    /\ LET queue == QueueCell(index[t]).data IN
       IF queue # <<>>
       THEN /\ inner' = [inner EXCEPT ![index[t] + 1][2].data = PopFront(queue).rest]
            /\ token' = [token EXCEPT ![PopFront(queue).thread] = TRUE]
       ELSE UNCHANGED <<inner, token>>
    /\ UnlockReturn(t)
    /\ UNCHANGED <<guards, ret, spurious, source, touched, counter>>
    /\ UNCHANGED <<cursorVars, atomexVars>>

\* ---------------------------------------------------------------- Mutec::to_vec
\* for index in 0..self.len() { vec.push(self.lock(index)) }
ToVec(t) ==
    /\ pc[t] = "idle"
    /\ IF MutecLen = 0
       THEN /\ ret' = [ret EXCEPT ![t] = Ret("Vec", 0)]
            /\ UNCHANGED <<pc, op, index>>
       ELSE /\ pc' = [pc EXCEPT ![t] = "lock"]
            /\ op' = [op EXCEPT ![t] = "to_vec"]
            /\ index' = [index EXCEPT ![t] = 0]
            /\ ret' = [ret EXCEPT ![t] = NoRet]
    /\ UNCHANGED <<inner, guards, token, spurious, source, touched, counter>>
    /\ UNCHANGED <<cursorVars, atomexVars>>

\* ---------------------------------------------------------------- Iter
HasCursor(t) == iter[t] # NoCursor \/ async_iter[t] # NoCursor

\* Mutec::iter
IterNew(t) ==
    /\ pc[t] = "idle"
    /\ ~HasCursor(t)
    /\ iter' = [iter EXCEPT ![t] =
                   [kind |-> "iter", index |-> 0, back_index |-> MutecLen]]
    /\ yielded' = [yielded EXCEPT ![t] = <<>>]
    /\ ret' = [ret EXCEPT ![t] = NoRet]
    /\ UNCHANGED <<inner, pc, op, index, guards, async_iter, sweep, done, token,
                   spurious, source, touched, counter>>
    /\ UNCHANGED atomexVars

\* Mutation: the cursor counts as exhausted only once front has passed back.
NextDoneLate(it) == it.index > it.back_index

\* `if self.index >= self.back_index { return None }`
NextDone(it) == it.index >= it.back_index

\* Mutation: next_back stops only when the back index reaches 0.
NextBackDoneAtZero(it) == it.back_index <= 0

\* `if self.back_index <= self.index { return None }`
NextBackDone(it) == it.back_index <= it.index

\* Mutation: the front index is not subtracted.
IterLenBack(it) == it.back_index

\* ExactSizeIterator::len: self.back_index - self.index, a usize subtraction;
\* -1 stands for its underflow (a panic or a wrapped value, by build).
IterLen(it) ==
    IF it.back_index >= it.index THEN it.back_index - it.index ELSE -1

\* Iterator::size_hint: (self.len(), Some(self.len()))
IterSizeHint(it) == <<IterLen(it), IterLen(it)>>

\* A call of Iter::len.
IterLenCall(t) ==
    /\ pc[t] = "idle"
    /\ iter[t] # NoCursor
    /\ ret' = [ret EXCEPT ![t] = Ret("Len", IterLen(iter[t]))]
    /\ UNCHANGED <<inner, pc, op, index, guards, token, spurious, source, touched,
                   counter>>
    /\ UNCHANGED <<cursorVars, atomexVars>>

\* Mutation: the index before the increment is forgotten.
NextIndexSkip(it) == it.index

\* The argument of `self.parent.lock(self.index-1)`, after `self.index += 1`.
NextIndex(it) == it.index - 1

\* Iter::next
IterNext(t) ==
    /\ pc[t] = "idle"
    /\ iter[t] # NoCursor
    /\ IF NextDone(iter[t])
       THEN /\ ret' = [ret EXCEPT ![t] = Ret("None", 0)]
            /\ UNCHANGED <<iter, pc, op, index>>
       ELSE /\ iter' = [iter EXCEPT ![t].index = @ + 1]
            /\ pc' = [pc EXCEPT ![t] = "lock"]
            /\ op' = [op EXCEPT ![t] = "next"]
            /\ index' = [index EXCEPT ![t] = NextIndex(iter'[t])]
            /\ ret' = [ret EXCEPT ![t] = NoRet]
    /\ UNCHANGED <<inner, guards, async_iter, sweep, done, token, yielded, spurious,
                   source, touched, counter>>
    /\ UNCHANGED atomexVars

\* Mutation: the index is taken as if back_index had not been decremented yet.
NextBackIndexStale(it) == it.back_index + 1

\* The argument of `self.parent.lock(self.back_index)`, after `self.back_index -= 1`.
NextBackIndex(it) == it.back_index

\* DoubleEndedIterator::next_back
IterNextBack(t) ==
    /\ pc[t] = "idle"
    /\ iter[t] # NoCursor
    /\ IF NextBackDone(iter[t])
       THEN /\ ret' = [ret EXCEPT ![t] = Ret("None", 0)]
            /\ UNCHANGED <<iter, pc, op, index>>
       ELSE /\ iter' = [iter EXCEPT ![t].back_index = @ - 1]
            /\ pc' = [pc EXCEPT ![t] = "lock"]
            /\ op' = [op EXCEPT ![t] = "next_back"]
            /\ index' = [index EXCEPT ![t] = NextBackIndex(iter'[t])]
            /\ ret' = [ret EXCEPT ![t] = NoRet]
    /\ UNCHANGED <<inner, guards, async_iter, sweep, done, token, yielded, spurious,
                   source, touched, counter>>
    /\ UNCHANGED atomexVars

\* The cursor goes out of scope (the guards it yielded live on).
CursorDrop(t) ==
    /\ pc[t] = "idle"
    /\ HasCursor(t)
    /\ iter' = [iter EXCEPT ![t] = NoCursor]
    /\ async_iter' = [async_iter EXCEPT ![t] = NoCursor]
    /\ yielded' = [yielded EXCEPT ![t] = <<>>]
    /\ ret' = [ret EXCEPT ![t] = NoRet]
    /\ UNCHANGED <<inner, pc, op, index, guards, sweep, done, token, spurious,
                   source, touched, counter>>
    /\ UNCHANGED atomexVars

\* ---------------------------------------------------------------- AsyncIter
\* Mutec::async_iter
AsyncIterNew(t) ==
    /\ pc[t] = "idle"
    /\ ~HasCursor(t)
    /\ async_iter' = [async_iter EXCEPT ![t] =
                         [kind |-> "async", progress |-> [k \in 1..MutecLen |-> FALSE]]]
    /\ yielded' = [yielded EXCEPT ![t] = <<>>]
    /\ ret' = [ret EXCEPT ![t] = NoRet]
    /\ UNCHANGED <<inner, pc, op, index, guards, iter, sweep, done, token, spurious,
                   source, touched, counter>>
    /\ UNCHANGED atomexVars

\* AsyncIter::next, entry: done = false; first pass of `while !done { done = true; for ..`
AsyncNext(t) ==
    /\ pc[t] = "idle"
    /\ async_iter[t] # NoCursor
    /\ pc' = [pc EXCEPT ![t] = "async_next"]
    /\ op' = [op EXCEPT ![t] = "async_next"]
    /\ done' = [done EXCEPT ![t] = TRUE]
    /\ sweep' = [sweep EXCEPT ![t] = 0]
    /\ ret' = [ret EXCEPT ![t] = NoRet]
    /\ UNCHANGED <<inner, index, guards, iter, async_iter, token, yielded, spurious,
                   source, touched, counter>>
    /\ UNCHANGED atomexVars

\* Mutation: `if *progress { continue }` is left out.
UnmarkedOrNot(t) == sweep[t]..(Len(async_iter[t].progress) - 1)

\* Indices the for loop has still to visit whose marker is unset.
Unmarked(t) ==
    {k \in sweep[t]..(Len(async_iter[t].progress) - 1) : ~async_iter[t].progress[k + 1]}

\* Mutation: the sweep takes the last unmarked index first.
MinFromEnd(S) == CHOOSE x \in S : \A y \in S : x >= y

\* The first index `self.progress.iter_mut().enumerate()` reaches among those of S.
Min(S) == CHOOSE x \in S : \A y \in S : x <= y

AsyncReturn(t) ==
    /\ pc' = [pc EXCEPT ![t] = "idle"]
    /\ op' = [op EXCEPT ![t] = "none"]
    /\ sweep' = [sweep EXCEPT ![t] = 0]
    /\ done' = [done EXCEPT ![t] = FALSE]

\* AsyncIter::next, the for loop up to and including its next try_lock; when the
\* loop runs out: `return None` if done is still true, else the next sweep begins.
AsyncStep(t) ==
    /\ pc[t] = "async_next"
    /\ IF Unmarked(t) = {}
       THEN /\ IF done[t]
               THEN /\ AsyncReturn(t)
                    /\ ret' = [ret EXCEPT ![t] = Ret("None", 0)]
               ELSE /\ done' = [done EXCEPT ![t] = TRUE]
                    /\ sweep' = [sweep EXCEPT ![t] = 0]
                    /\ UNCHANGED <<pc, op, ret>>
            /\ UNCHANGED <<inner, guards, async_iter, yielded, touched>>
       ELSE LET k == Min(Unmarked(t))
                r == MutecTryLock(k)
            IN  /\ inner' = [inner EXCEPT ![k + 1][1] = r.cell]
                /\ IF r.ok
                   THEN /\ async_iter' = [async_iter EXCEPT ![t].progress[k + 1] = TRUE]
                        /\ guards' = AddGuard(t, k)
                        /\ touched' = touched \cup {k}
                        /\ yielded' = [yielded EXCEPT ![t] = Append(@, k)]
                        /\ ret' = [ret EXCEPT ![t] = Ret("Some", k)]
                        /\ AsyncReturn(t)
                   ELSE /\ done' = [done EXCEPT ![t] = FALSE]
                        /\ sweep' = [sweep EXCEPT ![t] = k + 1]
                        /\ UNCHANGED <<pc, op, ret, guards, async_iter, yielded, touched>>
    /\ UNCHANGED <<index, iter, token, spurious, source, counter>>
    /\ UNCHANGED atomexVars

\* ---------------------------------------------------------------- specifications
\* The steps inside Mutec::lock and Mutec::unlock.
LockStep(t) ==
    \/ LockTry(t)
    \/ LockQueue(t)
    \/ LockPush(t)
    \/ LockUnlockQueue(t)
    \/ Park(t)

UnlockStep(t) ==
    \/ UnlockValue(t)
    \/ UnlockQueue(t)
    \/ UnlockPop(t)

\* The Mutec is built and grown, from payloads drawn from `payloads`.
ConstructOver(payloads) ==
    \/ \E value \in payloads : Push(value)
    \/ \E n \in 1..MaxLen : \E items \in [1..n -> payloads] : ExtendWith(items)
    \/ \E n \in 1..MaxLen : \E items \in [1..n -> payloads] : Build(items)

Construct == ConstructOver(Values)

\* A thread that uses the Mutec through its methods and through guards.
Caller(t) ==
    \/ \E i \in Indices : CallLock(t, i)
    \/ \E i \in Indices : TryLock(t, i)
    \/ \E i \in Indices : CheckLock(t, i)
    \/ \E i \in IndexDomain : GuardRead(t, i)
    \/ \E i \in IndexDomain : GuardDrop(t, i)
    \/ ToVec(t)
    \/ LockStep(t)
    \/ UnlockStep(t)
    \/ SpuriousWake(t)

\* A thread that also owns a cursor.
CursorUser(t) ==
    \/ IterNew(t)
    \/ IterNext(t)
    \/ IterNextBack(t)
    \/ IterLenCall(t)
    \/ AsyncIterNew(t)
    \/ AsyncNext(t)
    \/ AsyncStep(t)
    \/ CursorDrop(t)

\* Threads call lock, try_lock, check_lock and to_vec, read and write through
\* guards and drop them.
LockNext ==
    \/ Construct
    \/ \E t \in Threads : Caller(t)
    \/ \E t \in Threads, i \in IndexDomain, value \in Values : GuardWrite(t, i, value)

LockSpec == Init /\ [][LockNext]_vars

\* Every way of taking a guard at once: the callers above, and thread 1 also walks
\* the Mutec with an Iter or an AsyncIter.  The atomic accesses of a cursor are those
\* of lock and try_lock, so the other threads' calls produce every interference a
\* cursor in another thread can produce.  Payloads play no part in locking: they are
\* all 0 here and nothing writes them.
Next ==
    \/ ConstructOver({0})
    \/ \E t \in Threads : Caller(t)
    \/ CursorUser(1)

Spec == Init /\ [][Next]_vars

\* ---------------------------------------------------------------- stand-alone Atomex
\* Atomex::new(data), replacing an Atomex nothing refers to.
AtomexCreate(data) ==
    /\ \A t \in Threads : refs[t] = 0
    /\ atomex' = AtomexNew(data)
    /\ ret' = [t \in Threads |-> NoRet]
    /\ UNCHANGED <<inner, pc, op, index, guards, token, spurious, refs, source, touched,
                   counter>>
    /\ UNCHANGED cursorVars

\* Atomex::try_lock: Ok(&mut data) or Err(())
AtomexTry(t) ==
    /\ LET r == AtomexTryLock(atomex) IN
       /\ atomex' = r.cell
       /\ refs' = IF r.ok THEN [refs EXCEPT ![t] = @ + 1] ELSE refs
       /\ ret' = [ret EXCEPT ![t] =
                     IF r.ok THEN Ret("Ok", r.cell.data) ELSE Ret("Err", 0)]
    /\ UNCHANGED <<inner, pc, op, index, guards, token, spurious, source, touched,
                   counter>>
    /\ UNCHANGED cursorVars

\* Assignment through the `&mut T` that try_lock returned.
AtomexWrite(t, value) ==
    /\ refs[t] > 0
    /\ atomex' = [atomex EXCEPT !.data = value]
    /\ ret' = [ret EXCEPT ![t] = NoRet]
    /\ UNCHANGED <<inner, pc, op, index, guards, token, spurious, refs, source, touched,
                   counter>>
    /\ UNCHANGED cursorVars

\* Read through the `&mut T` that try_lock returned.
AtomexRead(t) ==
    /\ refs[t] > 0
    /\ ret' = [ret EXCEPT ![t] = Ret("Value", atomex.data)]
    /\ UNCHANGED <<inner, pc, op, index, guards, token, spurious, atomex, refs, source,
                   touched, counter>>
    /\ UNCHANGED cursorVars

\* unsafe Atomex::unlock, called by the thread that holds the cell (its precondition);
\* the `&mut T` is given up with it.
AtomexRelease(t) ==
    /\ refs[t] > 0
    /\ refs' = [refs EXCEPT ![t] = @ - 1]
    /\ atomex' = AtomexUnlock(atomex)
    /\ ret' = [ret EXCEPT ![t] = NoRet]
    /\ UNCHANGED <<inner, pc, op, index, guards, token, spurious, source, touched,
                   counter>>
    /\ UNCHANGED cursorVars

\* Atomex::check_lock
AtomexCheck(t) ==
    /\ ret' = [ret EXCEPT ![t] = Ret("Bool", IF AtomexCheckLock(atomex) THEN 1 ELSE 0)]
    /\ UNCHANGED <<inner, pc, op, index, guards, token, spurious, atomex, refs, source,
                   touched, counter>>
    /\ UNCHANGED cursorVars

AtomexNext ==
    \/ \E data \in Values : AtomexCreate(data)
    \/ \E t \in Threads : AtomexTry(t)
    \/ \E t \in Threads, value \in Values : AtomexWrite(t, value)
    \/ \E t \in Threads : AtomexRead(t)
    \/ \E t \in Threads : AtomexRelease(t)
    \/ \E t \in Threads : AtomexCheck(t)

\* Threads share one Atomex and call its methods (tests::atomic_lock).
AtomexSpec == Init /\ [][AtomexNext]_vars

\* ---------------------------------------------------------------- increment workload
\* Every thread runs, Rounds times:  { let mut g = mutec.lock(i); *g += 1; }
\* on the same index i = counter.target.
WorkloadBegin(i) ==
    /\ counter.target = -1
    /\ i \in Indices
    /\ counter' = [counter EXCEPT !.target = i]
    /\ UNCHANGED <<inner, pc, op, index, guards, token, ret, spurious, source, touched>>
    /\ UNCHANGED <<cursorVars, atomexVars>>

\* mutec.lock(i)
WorkloadLock(t) ==
    /\ counter.target >= 0
    /\ counter.rounds[t] < Rounds
    /\ guards[t] = NoGuards
    /\ CallLock(t, counter.target)

\* `*g += 1`, the read (Deref)
WorkloadLoad(t) ==
    /\ counter.target >= 0
    /\ ret[t].tag = "Guard"
    /\ GuardRead(t, counter.target)

\* `*g += 1`, the write (DerefMut)
WorkloadAdd(t) ==
    /\ counter.target >= 0
    /\ ret[t].tag = "Value"
    /\ GuardStore(t, counter.target, ret[t].val + 1)
    /\ counter' = [counter EXCEPT !.rounds[t] = @ + 1]

\* end of the block: g is dropped
WorkloadDrop(t) ==
    /\ counter.target >= 0
    /\ ret[t].tag = "none"
    /\ GuardDrop(t, counter.target)

Workload(t) ==
    \/ WorkloadLock(t)
    \/ WorkloadLoad(t)
    \/ WorkloadAdd(t)
    \/ WorkloadDrop(t)
    \/ LockStep(t)
    \/ UnlockStep(t)

WorkloadNext ==
    \/ counter.target = -1 /\ Construct
    \/ \E i \in IndexDomain : WorkloadBegin(i)
    \/ \E t \in Threads : Workload(t)
    \/ \E t \in Threads : SpuriousWake(t)

WorkloadSpec == Init /\ [][WorkloadNext]_vars

\* The scheduler runs every thread that can take a step; a spurious return of
\* park() is possible but nothing guarantees it.
FairWorkloadSpec ==
    /\ WorkloadSpec
    /\ \A t \in Threads : WF_vars(Workload(t))

\* The scheduler runs every thread that is inside lock or inside the release of a
\* dropped guard, but a thread that owns a guard may keep it as long as it likes.
HolderFairSpec ==
    /\ WorkloadSpec
    /\ \A t \in Threads : WF_vars(LockStep(t)) /\ WF_vars(UnlockStep(t))

\* ---------------------------------------------------------------- any index value
\* The callers of LockSpec, with no restriction on the index they pass to lock,
\* try_lock and check_lock: a thread that owns no guard may pass any index.
AnyIndexCaller(t) ==
    /\ guards[t] = NoGuards
    /\ \E i \in IndexDomain :
          \/ CallLock(t, i)
          \/ TryLock(t, i)
          \/ CheckLock(t, i)

IndexNext ==
    \/ ConstructOver({0})
    \/ \E t \in Threads : Caller(t)
    \/ \E t \in Threads : AnyIndexCaller(t)

IndexSpec == Init /\ [][IndexNext]_vars

\* ---------------------------------------------------------------- concurrent to_vec
\* Every thread calls to_vec while it owns no guard, and drops the guards of the
\* Vec it got one by one.
ToVecCallers ==
    \/ ConstructOver({0})
    \/ \E t \in Threads : guards[t] = NoGuards /\ ToVec(t)
    \/ \E t \in Threads : LockStep(t)
    \/ \E t \in Threads, i \in IndexDomain : GuardDrop(t, i)
    \/ \E t \in Threads : UnlockStep(t)
    \/ \E t \in Threads : SpuriousWake(t)

ToVecSpec == Init /\ [][ToVecCallers]_vars

\* ---------------------------------------------------------------- a walk past a held slot
\* Thread 1 walks a Mutec of up to WalkLen slots with an Iter or an AsyncIter and
\* keeps the guards it gets, while thread 2 runs the increment workload on one slot:
\* it holds that slot for a while, drops it, and comes back for it Rounds times.
WalkBuild ==
    /\ counter.target = -1
    /\ \E n \in 1..WalkLen : Build([j \in 1..n |-> 0])

Walker(t) ==
    \/ guards[t] = NoGuards /\ IterNew(t)
    \/ IterNext(t)
    \/ IterNextBack(t)
    \/ guards[t] = NoGuards /\ AsyncIterNew(t)
    \/ AsyncNext(t)
    \/ AsyncStep(t)
    \/ LockStep(t)

WalkNext ==
    \/ WalkBuild
    \/ \E i \in IndexDomain : WorkloadBegin(i)
    \/ Workload(2)
    \/ Walker(1)
    \/ \E t \in Threads : SpuriousWake(t)

WalkSpec == Init /\ [][WalkNext]_vars

\* The scheduler runs every thread that can take a step: thread 2 goes on with its
\* workload, and a call thread 1 is in goes on with its next step.
FairWalkSpec ==
    /\ WalkSpec
    /\ WF_vars(Workload(2))
    /\ WF_vars(LockStep(1))
    /\ WF_vars(AsyncStep(1))

\* ---------------------------------------------------------------- traversals together
\* Thread 1 walks the Mutec with a cursor and keeps or drops the guards it gets,
\* as `for guard in mutec.iter()` with a collecting body does; thread 2 calls
\* to_vec while it owns no guard and drops the guards of the Vec one by one.
TraverseNext ==
    \/ ConstructOver({0})
    \/ guards[1] = NoGuards /\ IterNew(1)
    \/ IterNext(1)
    \/ IterNextBack(1)
    \/ guards[1] = NoGuards /\ AsyncIterNew(1)
    \/ AsyncNext(1)
    \/ AsyncStep(1)
    \/ CursorDrop(1)
    \/ guards[2] = NoGuards /\ ToVec(2)
    \/ \E t \in Threads : LockStep(t)
    \/ \E t \in Threads, i \in IndexDomain : GuardDrop(t, i)
    \/ \E t \in Threads : UnlockStep(t)
    \/ \E t \in Threads : SpuriousWake(t)

TraverseSpec == Init /\ [][TraverseNext]_vars

\* ---------------------------------------------------------------- polling past held slots
\* Thread 1 walks the Mutec with an AsyncIter; it may also own guards it took with
\* try_lock, before or after it made the cursor.  Thread 2 takes slots with
\* try_lock and gives them back.  Nobody calls lock.
PollNext ==
    \/ ConstructOver({0})
    \/ AsyncIterNew(1)
    \/ AsyncNext(1)
    \/ AsyncStep(1)
    \/ CursorDrop(1)
    \/ \E t \in Threads, i \in Indices : TryLock(t, i)
    \/ \E t \in Threads, i \in IndexDomain : GuardDrop(t, i)
    \/ \E t \in Threads : UnlockStep(t)

PollSpec == Init /\ [][PollNext]_vars

\* A thread inside AsyncIter::next is running: its loop goes on to its next
\* try_lock.  Nothing obliges the other calls to be made.
FairPollSpec == PollSpec /\ WF_vars(AsyncStep(1))

\* ---------------------------------------------------------------- one thread alone
\* Thread 1 walks a Mutec that nothing else locks: it creates a cursor while it owns
\* no guard, takes guards from the cursor, reads through them and drops them.
SoloNext ==
    \/ Construct
    \/ guards[1] = NoGuards /\ IterNew(1)
    \/ IterNext(1)
    \/ IterNextBack(1)
    \/ IterLenCall(1)
    \/ guards[1] = NoGuards /\ AsyncIterNew(1)
    \/ AsyncNext(1)
    \/ AsyncStep(1)
    \/ CursorDrop(1)
    \/ LockTry(1)
    \/ \E i \in IndexDomain : GuardRead(1, i)
    \/ \E i \in IndexDomain : GuardDrop(1, i)
    \/ UnlockStep(1)

SoloSpec == Init /\ [][SoloNext]_vars

\* ---------------------------------------------------------------- claims
InLock(t, i) ==
    /\ pc[t] \in {"lock", "lock_queue", "lock_push", "lock_unlock", "park"}
    /\ index[t] = i

\* C1: mutual exclusion.  In every state reachable by any interleaving of lock,
\* try_lock, guard drops, to_vec and both cursors, at most one MutecGuard is alive
\* for each index.
C1_MutualExclusion == \A i \in Indices : Alive(i) <= 1

\* A guard for i is alive while another thread is suspended inside lock(i).
C1_Witness ==
    \E i \in Indices, t, u \in Threads :
        /\ t # u
        /\ guards[t][i] = 1
        /\ InLock(u, i) /\ pc[u] = "park"

\* C2: no lost updates.  In every state of the increment workload the value at the
\* target index is its initial value plus the number of completed increments; once
\* every thread has done its Rounds rounds it is the initial value plus
\* NThreads * Rounds.
Increments == SumOver(Threads, counter.rounds)

AllRoundsDone ==
    /\ counter.target >= 0
    /\ \A t \in Threads : counter.rounds[t] = Rounds /\ pc[t] = "idle" /\ guards[t] = NoGuards

C2_NoLostUpdate ==
    counter.target >= 0 =>
        /\ GuardDeref(counter.target) = source[counter.target + 1] + Increments
        /\ AllRoundsDone =>
               GuardDeref(counter.target) = source[counter.target + 1] + NThreads * Rounds

\* Every thread has finished all its rounds, and a release has taken the queue cell.
C2_Witness == AllRoundsDone /\ QueueCell(counter.target).atomic

\* C3: blocking handoff.  While thread a holds the guard for the index and thread b
\* is inside lock on it, b's call does not return; and b's call eventually returns
\* a guard (every thread of the workload drops its guard after one increment).
HoldsTarget(t) == counter.target >= 0 /\ guards[t][counter.target] = 1
InLockTarget(t) == counter.target >= 0 /\ InLock(t, counter.target)

C3_BlockingHandoff ==
    \A a, b \in Threads :
        a # b =>
            /\ [](HoldsTarget(a) => ~HoldsTarget(b))
            /\ (HoldsTarget(a) /\ InLockTarget(b)) ~> HoldsTarget(b)

\* C4: try_lock(i) fails whenever a guard for i is alive, and returns a guard when
\* no guard for i is alive, no drop of one is still running and no thread is
\* inside lock(i).
Dropping(i) ==
    \E t \in Threads :
        pc[t] \in {"unlock", "unlock_queue", "unlock_pop"} /\ index[t] = i

C4_TryLock ==
    \A i \in Indices :
        /\ Alive(i) > 0 => ~MutecTryLock(i).ok
        /\ (Alive(i) = 0 /\ ~Dropping(i) /\ \A u \in Threads : ~InLock(u, i))
               => MutecTryLock(i).ok
        /\ \A t \in Threads :
               (ret[t] = Ret("Ok", i) /\ pc[t] = "idle") => guards[t][i] = 1

\* After a completed drop, one thread's try_lock(i) has returned a guard and the
\* other thread's try_lock(i) has failed.
C4_Witness ==
    \E i \in Indices, t, u \in Threads :
        /\ t # u
        /\ \A v \in Threads : pc[v] = "idle"
        /\ QueueCell(i).atomic
        /\ ret[t] = Ret("Ok", i) /\ guards[t][i] = 1
        /\ ret[u] = Ret("Err", i)

\* C5: check_lock(i) is false for a slot no guard was ever created for; and the
\* value-cell flag of i is true exactly when a guard for i is alive or the drop of
\* one has not yet cleared the flag (so it is false once the drop has returned).
FlagPending(i) == \E t \in Threads : pc[t] = "unlock" /\ index[t] = i

C5_CheckLock ==
    \A i \in Indices :
        /\ i \notin touched => ~MutecCheckLock(i)
        /\ MutecCheckLock(i) <=> (Alive(i) > 0 \/ FlagPending(i))

\* A guard for slot 0 was created and dropped, and afterwards check_lock(0)
\* returned false to both threads.
C5_Witness ==
    /\ 0 \in touched
    /\ Alive(0) = 0
    /\ \A t \in Threads : pc[t] = "idle" /\ ret[t] = Ret("Bool", 0)

\* C6: the value of slot i changes only in a step of the thread that owns the one
\* live guard for i, and that step keeps the guard; so the value a guard's owner
\* wrote last is the value the next guard for i exposes, whichever thread gets it.
C6_WriteVisible ==
    [][\A i \in Indices :
          GuardDeref(i)' # GuardDeref(i) =>
              /\ Alive(i) = 1
              /\ \E t \in Threads :
                    /\ guards[t][i] = 1
                    /\ pc[t] = "idle"
                    /\ guards' = guards
                    /\ pc' = pc]_vars

\* A thread holds a guard that it got after a completed drop, and has read
\* through it a value that differs from the one the slot was built with.
C6_Witness ==
    \E i \in Indices, t \in Threads :
        /\ guards[t][i] = 1
        /\ QueueCell(i).atomic
        /\ \A v \in Threads : pc[v] = "idle"
        /\ ret[t] = Ret("Value", GuardDeref(i))
        /\ GuardDeref(i) # source[i + 1]

\* C7: the Mutec has as many slots as the sequence it was built from has items;
\* a slot no guard was ever created for holds its item of the sequence, with a
\* free value cell and a free, empty wait queue; and the step that creates the
\* first guard for i exposes item i of the sequence.
C7_Construction ==
    /\ [](/\ MutecLen = Len(source)
          /\ \A i \in Indices :
                i \notin touched =>
                    /\ GuardDeref(i) = source[i + 1]
                    /\ ~MutecCheckLock(i)
                    /\ QueueCell(i) = AtomexNew(<<>>))
    /\ [][\A i \in Indices :
             (i \notin touched /\ i \in touched') =>
                 /\ GuardDeref(i)' = source[i + 1]
                 /\ Alive(i)' = 1]_vars

\* Built from <<0, 1>>; the only guard ever created is for index 1, by lock(1).
C7_Witness ==
    /\ source = <<0, 1>>
    /\ MutecLen = 2
    /\ touched = {1}
    /\ \E t \in Threads : guards[t][1] = 1 /\ ret[t] = Ret("Guard", 1)

\* C8: for a single Atomex, at most one reference from try_lock is out at a time;
\* the flag is true exactly while one is out; try_lock succeeds exactly when the
\* flag is false (so it fails between a successful try_lock and the unlock that
\* follows, and succeeds after that unlock), sets the flag to true, and leaves the
\* payload as it was; and the payload a successful try_lock returned is the stored one.
Borrowed == SumOver(Threads, refs)

C8_AtomexExclusive ==
    /\ Borrowed <= 1
    /\ AtomexCheckLock(atomex) <=> Borrowed = 1
    /\ AtomexTryLock(atomex).ok <=> Borrowed = 0
    /\ AtomexTryLock(atomex).ok => ~AtomexCheckLock(atomex)
    /\ AtomexCheckLock(AtomexTryLock(atomex).cell)
    /\ AtomexTryLock(atomex).cell.data = atomex.data
    /\ \A t \in Threads :
          (ret[t].tag = "Ok" /\ refs[t] > 0) => ret[t].val = atomex.data

\* One thread's try_lock succeeded on a payload written before an earlier unlock,
\* while the other thread's try_lock failed.
C8_Witness ==
    \E t, u \in Threads :
        /\ t # u
        /\ refs[t] = 1
        /\ ret[t] = Ret("Ok", 1)
        /\ ret[u] = Ret("Err", 0)

\* C9: on a collection only this thread locks, a cursor that is used with next()
\* only has yielded the indices 0, 1, ..., k-1 in that order after k calls, each
\* once; every call with k < N yields (its lock finds the slot free), the guard
\* of the call that just returned exposes the element stored at its index, and
\* after N calls the cursor is exhausted.
Ascending(k) == [j \in 1..k |-> j - 1]

InNext(t) == pc[t] = "lock" /\ op[t] = "next"

C9_IterNext ==
    (iter[1] # NoCursor /\ iter[1].back_index = MutecLen) =>
        LET k == Len(yielded[1]) IN
        /\ yielded[1] = Ascending(k)
        /\ k <= MutecLen
        /\ iter[1].index = IF InNext(1) THEN k + 1 ELSE k
        /\ InNext(1) => /\ index[1] = k
                        /\ k < MutecLen
                        /\ ~MutecCheckLock(k)
        /\ pc[1] \notin {"lock_queue", "lock_push", "lock_unlock", "park"}
        /\ (ret[1].tag = "Some" /\ k > 0) =>
               /\ ret[1].val = k - 1
               /\ guards[1][k - 1] = 1
               /\ GuardDeref(k - 1) = source[k]
        /\ ret[1].tag = "None" => k = MutecLen

\* MaxLen calls of next() have yielded 0, ..., MaxLen - 1, and one more call
\* has returned None.
C9_Witness ==
    /\ iter[1] # NoCursor
    /\ iter[1].back_index = MutecLen
    /\ MutecLen = MaxLen
    /\ yielded[1] = Ascending(MaxLen)
    /\ \A i \in Indices : guards[1][i] = 1
    /\ \A i, j \in Indices : i # j => source[i + 1] # source[j + 1]
    /\ ret[1] = Ret("None", 0)

\* C10: on a collection only this thread locks, a cursor that is used with
\* next_back() only has yielded the indices N-1, N-2, ..., N-k in that order after
\* k calls, each once; a call that finds back = b acquires index b - 1 (its lock
\* finds the slot free) and leaves back = b - 1; the guard of the call that just
\* returned exposes the element stored at its index, and after N calls the cursor
\* is exhausted.
Descending(n, k) == [j \in 1..k |-> n - j]

InNextBack(t) == pc[t] = "lock" /\ op[t] = "next_back"

C10_IterNextBack ==
    (iter[1] # NoCursor /\ iter[1].index = 0) =>
        LET k == Len(yielded[1])
            b == MutecLen - k
        IN  /\ yielded[1] = Descending(MutecLen, k)
            /\ k <= MutecLen
            /\ iter[1].back_index = IF InNextBack(1) THEN b - 1 ELSE b
            /\ InNextBack(1) => /\ index[1] = b - 1
                                /\ b > 0
                                /\ ~MutecCheckLock(b - 1)
            /\ pc[1] \notin {"lock_queue", "lock_push", "lock_unlock", "park"}
            /\ (ret[1].tag = "Some" /\ k > 0) =>
                   /\ ret[1].val = b
                   /\ iter[1].back_index = ret[1].val
                   /\ guards[1][b] = 1
                   /\ GuardDeref(b) = source[b + 1]
            /\ ret[1].tag = "None" => k = MutecLen

\* MaxLen calls of next_back() have yielded MaxLen - 1, ..., 0, and one more call
\* has returned None.
C10_Witness ==
    /\ iter[1] # NoCursor
    /\ iter[1].index = 0
    /\ MutecLen = MaxLen
    /\ yielded[1] = Descending(MaxLen, MaxLen)
    /\ \A i \in Indices : guards[1][i] = 1
    /\ \A i, j \in Indices : i # j => source[i + 1] # source[j + 1]
    /\ ret[1] = Ret("None", 0)

\* C11: once a cursor's front index equals its back index, its indices never
\* change again, and every call of next() and of next_back() made in that state
\* returns None in one step that attempts no lock: it leaves the cursor, every
\* slot, every guard and every wait queue as they were.
FrontMeetsBack(t) == iter[t] # NoCursor /\ iter[t].index = iter[t].back_index

C11_Exhausted ==
    [][\A t \in Threads :
          FrontMeetsBack(t) =>
              /\ iter'[t] # NoCursor => iter'[t] = iter[t]
              /\ (pc[t] = "idle" /\ (IterNext(t) \/ IterNextBack(t))) =>
                     /\ ret'[t] = Ret("None", 0)
                     /\ UNCHANGED <<inner, pc, op, index, guards, iter, token,
                                    touched, yielded>>]_vars

\* A cursor over MaxLen slots that was advanced from both ends until front met
\* back at 1, and whose last call returned None.
C11_Witness ==
    /\ MutecLen = MaxLen
    /\ FrontMeetsBack(1)
    /\ iter[1].index = 1
    /\ Len(yielded[1]) = MaxLen
    /\ pc[1] = "idle"
    /\ ret[1] = Ret("None", 0)

\* C12: for every cursor over a Mutec of length N, 0 <= front <= back <= N;
\* Iter::len() and both bounds of size_hint() are back - front (the subtraction
\* never underflows); the indices yielded so far are distinct, and between calls
\* back - front is N minus their number, so it drops by 1 with every guard yielded
\* from either end (inside a call the index is already taken, the guard not yet
\* yielded).
InCursorCall(t) == op[t] \in {"next", "next_back"}

Yielded(t) == {yielded[t][j] : j \in 1..Len(yielded[t])}

C12_IterLen ==
    \A t \in Threads :
        iter[t] # NoCursor =>
            LET front == iter[t].index
                back == iter[t].back_index
                left == MutecLen - Len(yielded[t])
            IN  /\ 0 <= front /\ front <= back /\ back <= MutecLen
                /\ IterLen(iter[t]) = back - front
                /\ IterSizeHint(iter[t]) = <<back - front, back - front>>
                /\ Cardinality(Yielded(t)) = Len(yielded[t])
                /\ Yielded(t) = ((0..(MutecLen - 1)) \ (front..(back - 1)))
                                     \ (IF InCursorCall(t) THEN {index[t]} ELSE {})
                /\ IterLen(iter[t]) = IF InCursorCall(t) THEN left - 1 ELSE left
                /\ ret[t].tag = "Len" => ret[t].val = left

\* One guard was yielded from the front of a cursor over MaxLen slots, and len()
\* then returned MaxLen - 1.
C12_Witness ==
    /\ MutecLen = MaxLen
    /\ iter[1] # NoCursor
    /\ iter[1].index = 1
    /\ yielded[1] = <<0>>
    /\ ret[1] = Ret("Len", MaxLen - 1)

\* C13: while thread 2 holds the slot that thread 1's cursor is trying to lock,
\* the cursor's call does not return and yields no other index; when the call
\* returns it yields exactly that index; and the call eventually returns the
\* guard (thread 2 drops its guard after one increment), for next() on the front
\* index and for next_back() on index back - 1.
WalkerWaits(t) ==
    /\ counter.target >= 0
    /\ InCursorCall(t)
    /\ index[t] = counter.target

C13_IterBlocks ==
    /\ [](HoldsTarget(2) => ~HoldsTarget(1))
    /\ [][(InCursorCall(1) /\ yielded'[1] # yielded[1]) =>
             /\ yielded'[1] = Append(yielded[1], index[1])
             /\ guards'[1][index[1]] = 1]_vars
    /\ (WalkerWaits(1) /\ HoldsTarget(2)) ~> HoldsTarget(1)

\* C14: under any interleaving, an AsyncIter over N slots has yielded distinct
\* indices, exactly those whose marker is set; a marker is set only in the step
\* in which the cursor's try_lock on that index succeeds, and is never cleared;
\* its next() returns None only when every marker is set, and a call made when
\* every marker is set can only return None.  So the guards yielded before the
\* first None cover every index exactly once.
Marked(t) == {k \in 0..(Len(async_iter[t].progress) - 1) : async_iter[t].progress[k + 1]}

AllMarked(t) == Marked(t) = 0..(Len(async_iter[t].progress) - 1)

C14_AsyncOnce ==
    /\ [](\A t \in Threads :
             async_iter[t] # NoCursor =>
                 /\ Len(async_iter[t].progress) = MutecLen
                 /\ Cardinality(Yielded(t)) = Len(yielded[t])
                 /\ Yielded(t) = Marked(t)
                 /\ (pc[t] = "idle" /\ ret[t] = Ret("None", 0)) => AllMarked(t)
                 /\ (pc[t] = "async_next" /\ AllMarked(t)) => done[t])
    /\ [][\A t \in Threads :
             (async_iter[t] # NoCursor /\ async_iter'[t] # NoCursor) =>
                 /\ Marked(t) \subseteq Marked(t)'
                 /\ \A k \in Marked(t)' \ Marked(t) :
                       /\ pc[t] = "async_next"
                       /\ ~MutecCheckLock(k)
                       /\ MutecCheckLock(k)'
                       /\ guards'[t][k] = guards[t][k] + 1
                       /\ yielded'[t] = Append(yielded[t], k)
                       /\ ret'[t] = Ret("Some", k)]_vars

\* An AsyncIter over MaxLen slots met a held slot 0, so it yielded the last index
\* first and index 0 last, and then returned None.
C14_Witness ==
    /\ async_iter[1] # NoCursor
    /\ MutecLen = MaxLen
    /\ Len(yielded[1]) = MaxLen
    /\ yielded[1][1] = MaxLen - 1
    /\ yielded[1][MaxLen] = 0
    /\ pc[1] = "idle"
    /\ ret[1] = Ret("None", 0)

\* C15: an AsyncIter walks 4 slots while thread 2 holds index 2.  As long as
\* thread 2 holds it, what the cursor has yielded is a prefix of 0, 1, 3, and a
\* call made before all three are yielded finds a free unmarked slot in its
\* current sweep (it does not wait for index 2); the indices yielded are distinct;
\* and the call that finds only index 2 left does not return while index 2 is
\* held and eventually returns it, so that exactly {0,1,2,3} was yielded.
IsPrefix(a, b) == Len(a) <= Len(b) /\ \A j \in 1..Len(a) : a[j] = b[j]

FourSlotWalk ==
    /\ MutecLen = 4
    /\ counter.target = 2
    /\ async_iter[1] # NoCursor

C15_AsyncSkipsHeld ==
    /\ []((FourSlotWalk /\ HoldsTarget(2)) =>
             /\ IsPrefix(yielded[1], <<0, 1, 3>>)
             /\ (pc[1] = "async_next" /\ Len(yielded[1]) < 3) =>
                    /\ Unmarked(1) \ {2} # {}
                    /\ \A k \in Unmarked(1) \ {2} : ~MutecCheckLock(k))
    /\ [](FourSlotWalk =>
             /\ Cardinality(Yielded(1)) = Len(yielded[1])
             /\ Yielded(1) \subseteq 0..3)
    /\ (FourSlotWalk /\ HoldsTarget(2) /\ pc[1] = "async_next" /\ Len(yielded[1]) = 3)
           ~> (Yielded(1) = 0..3 /\ Len(yielded[1]) = 4 /\ pc[1] = "idle")

\* The cursor yielded 0, 1 and 3 while index 2 was held, and index 2 last, after
\* thread 2 had completed an increment and dropped its guard.
C15_Witness ==
    /\ FourSlotWalk
    /\ yielded[1] = <<0, 1, 3, 2>>
    /\ ret[1] = Ret("Some", 2)
    /\ counter.rounds[2] >= 1
    /\ guards[2][2] = 0

\* C16: on a collection only this thread locks, an AsyncIter has yielded the
\* indices 0, 1, ..., k-1 in that order after k calls, no try_lock of a sweep
\* ever fails, the values behind the yielded indices are the first k items of the
\* source sequence, and None is returned only after all N.
ValuesYielded(t) == [j \in 1..Len(yielded[t]) |-> GuardDeref(yielded[t][j])]

C16_AsyncAscending ==
    async_iter[1] # NoCursor =>
        LET k == Len(yielded[1]) IN
        /\ yielded[1] = Ascending(k)
        /\ k <= MutecLen
        /\ ValuesYielded(1) = SubSeq(source, 1, k)
        /\ pc[1] = "async_next" => /\ done[1]
                                   /\ \A i \in Unmarked(1) : ~MutecCheckLock(i)
        /\ (ret[1].tag = "Some" /\ k > 0) =>
               /\ ret[1].val = k - 1
               /\ guards[1][k - 1] = 1
        /\ ret[1].tag = "None" => k = MutecLen

\* An AsyncIter over MaxLen slots with pairwise different values has yielded all
\* of them in ascending order and then returned None.
C16_Witness ==
    /\ async_iter[1] # NoCursor
    /\ MutecLen = MaxLen
    /\ yielded[1] = Ascending(MaxLen)
    /\ ValuesYielded(1) = source
    /\ \A i, j \in Indices : i # j => source[i + 1] # source[j + 1]
    /\ ret[1] = Ret("None", 0)

\* C17: a thread inside to_vec holds the guards of exactly the indices below the
\* one it is locking (it takes them in the order 0, 1, ..., len-1), and when
\* to_vec returns a non-empty Vec it holds the guards of all indices; and with
\* threads calling
\* to_vec concurrently there is no state in which two of them each hold a slot
\* the other one is inside lock for.
C17_ToVec ==
    /\ \A t \in Threads :
          /\ op[t] = "to_vec" =>
                 \A j \in Indices : guards[t][j] = IF j < index[t] THEN 1 ELSE 0
          /\ (pc[t] = "idle" /\ ret[t].tag = "Vec" /\ ret[t].val > 0) =>
                 /\ ret[t].val = MutecLen
                 /\ \A j \in Indices : guards[t][j] = 1
    /\ \A t, u \in Threads :
          \A i, j \in Indices :
              ~(/\ t # u
                /\ InLock(t, i) /\ guards[u][i] = 1
                /\ InLock(u, j) /\ guards[t][j] = 1)

\* One thread's to_vec has returned with all MaxLen guards while the other
\* thread's to_vec is suspended on index 0.
C17_Witness ==
    \E t, u \in Threads :
        /\ t # u
        /\ MutecLen = MaxLen
        /\ ret[t] = Ret("Vec", MaxLen)
        /\ \A j \in Indices : guards[t][j] = 1
        /\ op[u] = "to_vec" /\ pc[u] = "park" /\ index[u] = 0

\* C18: a try_lock(i) that fails is one step of its caller that changes nothing
\* but the caller's return value: the flag, the value and the wait queue of
\* every slot, every guard, every park token and every thread's position stay as
\* they were (no wait record is appended, the caller is not suspended); and
\* every try_lock and every check_lock returns within the one step it takes,
\* check_lock changing no slot either.
C18_TryLockFrame ==
    [][\A t \in Threads, i \in Indices :
          /\ TryLock(t, i) =>
                 /\ pc'[t] = "idle"
                 /\ ret'[t].tag \in {"Ok", "Err"}
                 /\ ret'[t].tag = "Err" =>
                        UNCHANGED <<inner, pc, op, index, guards, token, touched>>
          /\ CheckLock(t, i) =>
                 /\ pc'[t] = "idle"
                 /\ ret'[t].tag = "Bool"
                 /\ UNCHANGED <<inner, pc, op, index, guards, token, touched>>]_vars

\* A try_lock(i) has failed against a guard another thread holds; the caller is
\* idle and the wait queue of i is still free and empty.
C18_Witness ==
    \E i \in Indices, t, u \in Threads :
        /\ t # u
        /\ guards[t][i] = 1
        /\ ret[u] = Ret("Err", i)
        /\ pc[u] = "idle"
        /\ QueueCell(i) = AtomexNew(<<>>)

\* C19: no call of lock, try_lock or check_lock and no release of a guard
\* panics, whatever index is passed; and try_lock fails exactly when the
\* value-cell flag is true at its compare-and-swap.
C19_NoPanic ==
    /\ \A t \in Threads : pc[t] # "panicked"
    /\ \A i \in Indices : MutecTryLock(i).ok <=> ~MutecCheckLock(i)

\* C20: the queue cell of a slot is held only while a thread is in the middle of
\* its push (inside lock) or of its pop-and-wake (inside the release) on that
\* slot; in particular it is not held once those steps have completed, nor by a
\* thread that is suspended.
InQueueSection(t, i) ==
    /\ pc[t] \in {"lock_push", "lock_unlock", "unlock_pop"}
    /\ index[t] = i

C20_QueueCellBrief ==
    \A i \in Indices :
        AtomexCheckLock(QueueCell(i)) => \E t \in Threads : InQueueSection(t, i)

\* C21: in the increment workload, where every guard is dropped after one
\* increment, every call of lock on the contended index eventually returns its
\* guard: no thread stays inside lock for ever.
C21_LockReturns ==
    \A t \in Threads : InLockTarget(t) ~> HoldsTarget(t)

\* C22: when a thread is in the middle of enqueuing itself on the index and the
\* release that freed the slot has already returned (its try on the queue cell
\* failed against this thread, so it woke nobody), the thread still eventually
\* acquires the slot.
Releasing(i) ==
    \E t \in Threads :
        pc[t] \in {"unlock", "unlock_queue", "unlock_pop"} /\ index[t] = i

WakeSkipped(t) ==
    /\ counter.target >= 0
    /\ pc[t] \in {"lock_push", "lock_unlock"}
    /\ index[t] = counter.target
    /\ ~MutecCheckLock(counter.target)
    /\ ~Releasing(counter.target)

C22_SkippedWakeRecovers ==
    \A t \in Threads : WakeSkipped(t) ~> HoldsTarget(t)

\* C23: while another thread keeps its guard of the index, a thread inside lock
\* on that index eventually suspends in park(); it does not go round the retry
\* loop for ever.
C23_WaiterSuspends ==
    \A a, b \in Threads :
        a # b =>
            ((HoldsTarget(a) /\ InLockTarget(b))
                ~> (pc[b] = "park" \/ ~HoldsTarget(a)))

\* C24: a thread reaches park() inside lock only from the unlock of the queue
\* cell, which it reaches only from its own push_back, which it reaches only from
\* a successful try on the queue cell, which it reaches only from a failed try on
\* the value cell; at the moment it parks the queue cell is released and its own
\* record is the last of the queue.  When the try on the queue cell fails the
\* thread goes back to the try on the value cell and changes neither the queue,
\* the cells nor any park token.
LastRecord(i) ==
    LET q == QueueCell(i).data IN IF Len(q) = 0 THEN 0 ELSE q[Len(q)]

SuspendOrder(t) ==
    LET i == index[t] IN
    /\ (pc[t] # "park" /\ pc'[t] = "park") =>
          /\ pc[t] = "lock_unlock"
          /\ ~QueueCell(i).atomic'
          /\ LastRecord(i)' = t
    /\ (pc[t] # "lock_unlock" /\ pc'[t] = "lock_unlock") =>
          /\ pc[t] = "lock_push"
          /\ QueueCell(i).data' = Append(QueueCell(i).data, t)
    /\ (pc[t] # "lock_push" /\ pc'[t] = "lock_push") =>
          /\ pc[t] = "lock_queue"
          /\ ~QueueCell(i).atomic
          /\ QueueCell(i).atomic'
    /\ (pc[t] # "lock_queue" /\ pc'[t] = "lock_queue") =>
          /\ pc[t] = "lock"
          /\ ValueCell(i).atomic
          /\ inner' = inner
    /\ (pc[t] = "lock_queue" /\ QueueCell(i).atomic /\ pc'[t] # "lock_queue") =>
          /\ pc'[t] = "lock"
          /\ inner' = inner
          /\ token' = token

C24_SuspendOrder == [][\A t \in Threads : SuspendOrder(t)]_vars

C24_Witness ==
    \E t \in Threads :
        /\ pc[t] = "park"
        /\ ValueCell(index[t]).atomic
        /\ ~QueueCell(index[t]).atomic
        /\ LastRecord(index[t]) = t
        /\ ~token[t]

\* C25: the queue of an index changes only by a push_back of the calling thread
\* behind the records already there, or by a release removing the record at the
\* front and setting the park token of that record's thread; a park token is set
\* by nothing else.  So of two records queued on one index the one pushed first
\* is the one woken first.
QueueFifo(i) ==
    LET before == QueueCell(i).data
        after == QueueCell(i).data'
    IN  after # before =>
            \/ /\ \E t \in Threads :
                     /\ pc[t] = "lock_push"
                     /\ index[t] = i
                     /\ after = Append(before, t)
               /\ token' = token
            \/ /\ before # <<>>
               /\ after = Tail(before)
               /\ token' = [token EXCEPT ![Head(before)] = TRUE]

WokenFromFront(t) ==
    (token'[t] /\ ~token[t]) =>
        \E i \in Indices :
            /\ QueueCell(i).data # <<>>
            /\ Head(QueueCell(i).data) = t
            /\ QueueCell(i).data' = Tail(QueueCell(i).data)

C25_Fifo ==
    [][(\A i \in Indices : QueueFifo(i)) /\ (\A t \in Threads : WokenFromFront(t))]_vars

C25_Witness ==
    \E a, b \in Threads :
        /\ a # b
        /\ counter.target >= 0
        /\ token[a]
        /\ QueueCell(counter.target).data = <<b>>
        /\ QueueCell(counter.target).atomic
        /\ pc[b] = "park"
        /\ index[b] = counter.target
        /\ ~token[b]

\* C26: the drop of a guard runs Mutec::unlock once, in this order: the flag of
\* the value cell is cleared, leaving queue and tokens alone; then one try on the
\* queue cell; if it fails the release is over and nothing else changed; if it
\* succeeds the front record, if there is one, is removed and the token of its
\* thread set, and no other token; with an empty queue nothing is woken.  Every
\* release that started comes to its end.
ValueCellAfter(i) == inner'[i + 1][1]
QueueCellAfter(i) == inner'[i + 1][2]

ReleaseOnce(t) ==
    LET i == index[t]
        queue == QueueCell(i).data
    IN
    /\ (pc[t] # "unlock" /\ pc'[t] = "unlock") =>
          /\ pc[t] = "idle"
          /\ guards[t][index'[t]] = 1
          /\ guards'[t][index'[t]] = 0
          /\ inner' = inner
          /\ token' = token
    /\ (pc[t] = "unlock" /\ pc'[t] # "unlock") =>
          /\ pc'[t] = "unlock_queue"
          /\ ~ValueCellAfter(i).atomic
          /\ QueueCellAfter(i) = QueueCell(i)
          /\ token' = token
    /\ (pc[t] # "unlock_queue" /\ pc'[t] = "unlock_queue") => pc[t] = "unlock"
    /\ (pc[t] = "unlock_queue" /\ pc'[t] # "unlock_queue") =>
          /\ token' = token
          /\ ValueCellAfter(i) = ValueCell(i)
          /\ IF QueueCell(i).atomic
             THEN pc'[t] = "idle" /\ inner' = inner
             ELSE /\ pc'[t] = "unlock_pop"
                  /\ QueueCellAfter(i) = [QueueCell(i) EXCEPT !.atomic = TRUE]
    /\ (pc[t] # "unlock_pop" /\ pc'[t] = "unlock_pop") => pc[t] = "unlock_queue"
    /\ (pc[t] = "unlock_pop" /\ pc'[t] # "unlock_pop") =>
          /\ pc'[t] = "idle"
          /\ ValueCellAfter(i) = ValueCell(i)
          /\ IF queue = <<>>
             THEN inner' = inner /\ token' = token
             ELSE /\ QueueCellAfter(i).data = Tail(queue)
                  /\ token' = [token EXCEPT ![Head(queue)] = TRUE]

C26_ReleaseOnce ==
    /\ [][\A t \in Threads : ReleaseOnce(t)]_vars
    /\ \A t \in Threads : (pc[t] = "unlock") ~> (pc[t] = "idle")

C26_Witness ==
    \E a, b \in Threads :
        /\ a # b
        /\ counter.target >= 0
        /\ pc[a] = "idle"
        /\ guards[a] = NoGuards
        /\ ~MutecCheckLock(counter.target)
        /\ QueueCell(counter.target) = [data |-> <<>>, atomic |-> TRUE]
        /\ pc[b] = "park"
        /\ token[b]

\* C27: the flag of a value cell goes from set to clear only in the first step of
\* the release run by the drop of that index's guard, taken by the thread that
\* owned the guard; and the flag is set exactly while one guard of the index is
\* alive or being dropped, so a successful acquisition is followed by one clearing
\* and a clearing is preceded by one acquisition.
DropPending(i) == {t \in Threads : pc[t] = "unlock" /\ index[t] = i}

Outstanding(i) == Alive(i) + Cardinality(DropPending(i))

FlagMatchesGuard ==
    \A i \in Indices :
        /\ Outstanding(i) <= 1
        /\ ValueCell(i).atomic <=> Outstanding(i) = 1

ClearedByOwner(i) ==
    (ValueCell(i).atomic /\ ~ValueCellAfter(i).atomic) =>
        \E t \in DropPending(i) :
            /\ pc'[t] = "unlock_queue"
            /\ Alive(i) = 0
            /\ \A u \in Threads \ {t} : pc'[u] = pc[u] /\ guards'[u] = guards[u]

C27_OwnerClears ==
    /\ []FlagMatchesGuard
    /\ [][\A i \in Indices : ClearedByOwner(i)]_vars

C27_Witness ==
    \E t \in Threads, i \in Indices :
        /\ pc[t] = "unlock_queue"
        /\ index[t] = i
        /\ i \in touched
        /\ ~ValueCell(i).atomic
        /\ Alive(i) = 0

\* C28: no two threads ever wait for each other, each inside lock on a slot whose
\* guard the other owns, when the slots are taken through to_vec, Iter::next,
\* Iter::next_back and AsyncIter::next only.
WaitsFor(a, b) ==
    \E i \in Indices : InLock(a, i) /\ guards[b][i] > 0

C28_NoWaitCycle ==
    \A a, b \in Threads : a # b => ~(WaitsFor(a, b) /\ WaitsFor(b, a))

\* C29: on a collection only this thread locks, whatever the order of the calls
\* of next() and next_back() on one cursor: the indices yielded so far are all
\* different; they are the indices below the front position together with those
\* from the back position up, and the front never passes the back, so no index
\* comes from both ends; those below the front were yielded in ascending order and
\* those from the back up in descending order; no call waits; and once a call has
\* returned None exactly N calls have returned a guard, one for every index.
FrontOf(t) == IF InNext(t) THEN iter[t].index - 1 ELSE iter[t].index

BackOf(t) == IF InNextBack(t) THEN iter[t].back_index + 1 ELSE iter[t].back_index

C29_BothEnds ==
    iter[1] # NoCursor =>
        LET y == yielded[1]
            f == FrontOf(1)
            b == BackOf(1)
        IN  /\ 0 <= f /\ f <= b /\ b <= MutecLen
            /\ \A j, k \in 1..Len(y) : j # k => y[j] # y[k]
            /\ {y[j] : j \in 1..Len(y)} = (0..(f - 1)) \cup (b..(MutecLen - 1))
            /\ Len(y) = f + (MutecLen - b)
            /\ \A j, k \in 1..Len(y) :
                  j < k =>
                     /\ (y[j] < f /\ y[k] < f) => y[j] < y[k]
                     /\ (y[j] >= b /\ y[k] >= b) => y[j] > y[k]
            /\ pc[1] \notin {"lock_queue", "lock_push", "lock_unlock", "park"}
            /\ ret[1].tag = "None" =>
                  /\ f = b
                  /\ Len(y) = MutecLen
                  /\ {y[j] : j \in 1..Len(y)} = Indices

\* next_back() gave the last index, next() gave the first, and a further call
\* found the cursor exhausted.
C29_Witness ==
    /\ iter[1] # NoCursor
    /\ MutecLen = MaxLen
    /\ Len(yielded[1]) = MaxLen
    /\ yielded[1][1] = MaxLen - 1
    /\ yielded[1][2] = 0
    /\ iter[1].index = iter[1].back_index
    /\ ret[1] = Ret("None", 0)

\* C30: a thread inside AsyncIter::next is never inside lock: it is never
\* parked and every step it takes leaves every queue cell and every park token as
\* they were.  A step that gives it a guard is a try_lock that found the flag of
\* an unmarked index clear, set it and returned Some; any other step changes no
\* cell at all.  When the for loop has run out with some index still unmarked the
\* call does not return: the next step begins a sweep from index 0.
AsyncMoved(t) ==
    <<pc[t], sweep[t], done[t], ret[t]>>' # <<pc[t], sweep[t], done[t], ret[t]>>

AsyncFrame(t) ==
    (pc[t] = "async_next" /\ AsyncMoved(t)) =>
        /\ pc'[t] \in {"async_next", "idle"}
        /\ token' = token
        /\ \A i \in Indices : QueueCellAfter(i) = QueueCell(i)
        /\ IF guards' # guards
           THEN \E k \in Unmarked(t) :
                   /\ guards' = AddGuard(t, k)
                   /\ ~ValueCell(k).atomic
                   /\ ValueCellAfter(k).atomic
                   /\ pc'[t] = "idle"
                   /\ ret'[t] = Ret("Some", k)
           ELSE inner' = inner
        /\ (Unmarked(t) = {} /\ ~done[t]) =>
              /\ pc'[t] = "async_next"
              /\ sweep'[t] = 0
              /\ guards' = guards
        /\ (pc'[t] = "idle" /\ guards' = guards) =>
              /\ ret'[t] = Ret("None", 0)
              /\ AllMarked(t)

C30_AsyncNeverWaits ==
    /\ [](\A t \in Threads : op[t] = "async_next" => pc[t] = "async_next")
    /\ [][\A t \in Threads : AsyncFrame(t)]_vars

\* A sweep has run out without a guard while another thread owns the one index
\* that is still unmarked: the call is about to sweep again.
C30_Witness ==
    /\ pc[1] = "async_next"
    /\ ~done[1]
    /\ Unmarked(1) = {}
    /\ ~AllMarked(1)
    /\ \E k \in Indices : ~async_iter[1].progress[k + 1] /\ guards[2][k] = 1
    /\ ~token[1]
    /\ \A i \in Indices : \A j \in 1..Len(QueueCell(i).data) : QueueCell(i).data[j] # 1

\* C31: a step of AsyncIter::next that tries an index goes past marked indices
\* only; if the flag of the index it tries is clear the call returns the guard of
\* that index at once, and if it is set the call does not return.  The call
\* returns None only when every index is marked.  So the call goes on sweeping
\* while every unmarked index is held, by another thread or by the calling thread
\* itself, and it is never for ever inside the call while some unmarked index is
\* free for ever.
Pending(t) ==
    {k \in 0..(Len(async_iter[t].progress) - 1) : ~async_iter[t].progress[k + 1]}

PollStep(t) ==
    (pc[t] = "async_next" /\ AsyncMoved(t)) =>
        /\ (pc'[t] = "async_next" /\ sweep'[t] > sweep[t]) =>
              /\ sweep'[t] - 1 \in Pending(t)
              /\ ValueCell(sweep'[t] - 1).atomic
              /\ \A j \in sweep[t]..(sweep'[t] - 2) : j \notin Pending(t)
              /\ guards' = guards
        /\ (pc'[t] = "idle" /\ ret'[t].tag = "Some") =>
              LET k == ret'[t].val IN
              /\ k \in Pending(t)
              /\ k >= sweep[t]
              /\ \A j \in sweep[t]..(k - 1) : j \notin Pending(t)
              /\ ~ValueCell(k).atomic
              /\ guards' = AddGuard(t, k)
        /\ (pc'[t] = "idle" /\ ret'[t].tag # "Some") =>
              /\ ret'[t] = Ret("None", 0)
              /\ Pending(t) = {}
        /\ (\A k \in Pending(t) : ValueCell(k).atomic) =>
              (pc'[t] = "idle" => Pending(t) = {})

FreeAndPending(t, k) ==
    /\ pc[t] = "async_next"
    /\ k \in Pending(t)
    /\ ~ValueCell(k).atomic

C31_AsyncPolls ==
    /\ [][\A t \in Threads : PollStep(t)]_vars
    /\ \A k \in IndexDomain : []<>~FreeAndPending(1, k)

\* A sweep has run out without a guard: the one index still unmarked is owned by
\* the thread that is walking.
C31_Witness ==
    /\ pc[1] = "async_next"
    /\ ~done[1]
    /\ sweep[1] = MutecLen
    /\ Pending(1) # {}
    /\ \A k \in Pending(1) : guards[1][k] = 1
    /\ guards[2] = NoGuards

\* C32: in every reachable state every record in the queue of an index is of a
\* thread that is inside lock on that index, past its push_back and not yet back
\* from park(); no thread has two records in one queue; and no thread that owns
\* the guard of an index has a record in that index's queue.
Records(i) == {QueueCell(i).data[j] : j \in 1..Len(QueueCell(i).data)}

C32_QueueRecords ==
    \A i \in Indices :
        LET queue == QueueCell(i).data IN
        /\ \A t \in Records(i) : pc[t] \in {"lock_unlock", "park"} /\ index[t] = i
        /\ \A j, k \in 1..Len(queue) : j # k => queue[j] # queue[k]
        /\ \A t \in Threads : guards[t][i] > 0 => t \notin Records(i)

\* C33: a thread that owns the guard of an index never gets a second guard of
\* it: its try_lock on that index returns Err and changes nothing else, and once
\* it is inside lock on that index it stays inside lock for as long as it owns
\* the guard.
OwnsAndLocks(t, i) == guards[t][i] = 1 /\ InLock(t, i)

NotReentrant(t, i) ==
    /\ guards[t][i] = 1 => guards'[t][i] <= 1
    /\ (guards[t][i] = 1 /\ TryLock(t, i)) =>
          /\ ret'[t] = Ret("Err", i)
          /\ guards' = guards
          /\ inner' = inner
          /\ pc' = pc
    /\ (OwnsAndLocks(t, i) /\ guards'[t][i] = 1) =>
          /\ pc'[t] \in {"lock", "lock_queue", "lock_push", "lock_unlock", "park"}
          /\ index'[t] = i

C33_NotReentrant ==
    [][\A t \in Threads, i \in Indices : NotReentrant(t, i)]_vars

\* A thread is parked inside lock on the index whose guard it owns, with its own
\* record queued and nobody else using the Mutec.
C33_Witness ==
    \E t \in Threads, i \in Indices :
        /\ guards[t][i] = 1
        /\ pc[t] = "park"
        /\ index[t] = i
        /\ t \in Records(i)
        /\ \A u \in Threads \ {t} : guards[u] = NoGuards /\ pc[u] = "idle"

\* C34: a step of lock, try_lock, check_lock or of the release of a guard, made
\* for index i, leaves the flag, the value and the queue of every other slot as
\* they were, and its outcome is decided by slot i alone: try_lock returns Ok
\* exactly when the flag of i was clear, check_lock returns the flag of i, and the
\* value-cell attempt of lock takes the guard whenever the flag of i is clear,
\* whatever threads are waiting or parked on other indices.
OnSlot(t, i) ==
    \/ CallLock(t, i)
    \/ TryLock(t, i)
    \/ CheckLock(t, i)
    \/ GuardDrop(t, i)
    \/ index[t] = i /\ LockStep(t)
    \/ index[t] = i /\ UnlockStep(t)

SlotFrame(t, i) ==
    /\ OnSlot(t, i) =>
          \A j \in Indices \ {i} : inner'[j + 1] = inner[j + 1]
    /\ TryLock(t, i) =>
          /\ ret'[t].tag = (IF ValueCell(i).atomic THEN "Err" ELSE "Ok")
          /\ guards'[t][i] = guards[t][i] + (IF ValueCell(i).atomic THEN 0 ELSE 1)
    /\ CheckLock(t, i) =>
          ret'[t] = Ret("Bool", IF ValueCell(i).atomic THEN 1 ELSE 0)
    /\ (index[t] = i /\ LockTry(t) /\ ~ValueCell(i).atomic) =>
          /\ guards'[t][i] = guards[t][i] + 1
          /\ ValueCellAfter(i).atomic

C34_SlotsIndependent ==
    [][\A t \in Threads, i \in Indices : SlotFrame(t, i)]_vars

\* One thread is parked on index i, whose guard the other thread owns; the other
\* thread's last call was a lock on another index, which gave it the guard, and
\* nothing was queued there.
C34_Witness ==
    \E a, b \in Threads, i, j \in Indices :
        /\ a # b /\ i # j
        /\ pc[a] = "park" /\ index[a] = i
        /\ QueueCell(i).data = <<a>>
        /\ guards[b][i] = 1
        /\ guards[b][j] = 1
        /\ pc[b] = "idle"
        /\ ret[b] = Ret("Guard", j)
        /\ QueueCell(j) = [data |-> <<>>, atomic |-> FALSE]

\* C35: a push adds one slot behind the existing ones, with its value, a clear
\* flag and a free, empty queue, so that len() grows by exactly 1, and it leaves
\* every existing slot as it was.  No step of any operation makes the Mutec
\* shorter, and the value at an index changes only through a guard of that index
\* and its queue only in lock or unlock on that index: what an index refers to
\* never moves.
PushFrame ==
    \A value \in Values :
        Push(value) =>
            /\ Len(inner') = MutecLen + 1
            /\ inner'[MutecLen + 1] = <<AtomexNew(value), AtomexNew(<<>>)>>
            /\ \A j \in 1..MutecLen : inner'[j] = inner[j]

SlotsStay ==
    /\ Len(inner') >= MutecLen
    /\ \A i \in Indices :
          /\ ValueCellAfter(i).data # ValueCell(i).data =>
                \E t \in Threads : guards[t][i] = 1 /\ pc[t] = "idle"
          /\ QueueCellAfter(i).data # QueueCell(i).data =>
                \E t \in Threads :
                    /\ index[t] = i
                    /\ pc[t] \in {"lock_push", "unlock_pop"}
          /\ ValueCellAfter(i).atomic # ValueCell(i).atomic =>
                Len(inner') = MutecLen

C35_PushAppends == [][PushFrame /\ SlotsStay]_vars

\* Slot 0 has been locked, written and released, which left its queue flag set;
\* slot 1 is as push makes it, and nothing borrows the Mutec.
C35_Witness ==
    /\ MutecLen = 2
    /\ Unborrowed
    /\ touched = {0}
    /\ QueueCell(0).atomic
    /\ ValueCell(0).data # source[1]
    /\ inner[2] = <<AtomexNew(source[2]), AtomexNew(<<>>)>>
    /\ source[2] # ValueCell(0).data

====
